---- MODULE Spec2Model ----
(***************************************************************************)
(* The SM CNN answer-selection model of sm_cnn/tutorial.ipynb: the class   *)
(* QAModel (its constructor, its forward pass and its static load) and the *)
(* torch operations the forward pass is made of.                           *)
(*                                                                         *)
(* A tensor is modelled by its shape and by what its values are computed   *)
(* from: src names the parameters and the input data a tensor depends on,  *)
(* coef is the per-element multiplier the dropout layer has applied (1:    *)
(* untouched, 0: zeroed, 2: rescaled).  Two tensors with the same shape,   *)
(* src and coef hold the same numbers.  The learned weights themselves are *)
(* opaque: params names a parameter set, and an input's data is named in   *)
(* its src.                                                                *)
(*                                                                         *)
(* torch raises RuntimeError on a shape it cannot process and TypeError on *)
(* an argument of the wrong type; the notebook defines no exception class  *)
(* of its own.                                                             *)
(***************************************************************************)
EXTENDS Integers, Sequences, FiniteSets, TLC

VARIABLES
    model,   \* the QAModel object the caller holds (trained_model), or NoModel
    last,    \* the outcome of the forward call the caller is looking at, or NoCall
    seen     \* an earlier call an observer has kept for comparison, or NoSeen

vars == <<model, last, seen>>

---------------------------------------------------------------------------
(* Bounds of the model.                                                    *)

MaxLen == 2        \* sequence lengths 0..MaxLen
MaxWidth == 2      \* filter widths 1..MaxWidth
MaxBatch == 2      \* batch sizes 1..MaxBatch
MaxChannels == 2   \* conv_filters 1..MaxChannels
MaxExt == 1        \* ext_feats_size 1..MaxExt; a passed ext_feats is 1..MaxExt+1 wide
MaxCalls == 3      \* calls counted since the one the observer kept

(* Program constants.                                                      *)

DropoutPercent == 50   \* nn.Dropout(0.5)
DefaultClasses == 2    \* n_classes=2

Dims == {1}                         \* word-vector dimensions
Classes == {DefaultClasses}
Blobs == {"blob1"}                  \* persisted parameter sets
DetBlobs == {"blob1", "blob2"}

NoModel == [exists |-> FALSE]
NoCall == [called |-> FALSE]
NoSeen == [kept |-> FALSE]
NoTensor == [shape |-> <<>>, src |-> <<>>, coef |-> <<>>]
None == [shape |-> <<>>, src |-> <<"None">>, coef |-> <<>>]

---------------------------------------------------------------------------
(* Shapes.                                                                 *)

RECURSIVE Numel(_)
Numel(shape) == IF shape = <<>> THEN 1 ELSE Head(shape) * Numel(Tail(shape))

---------------------------------------------------------------------------
(* The torch layers and functions the model uses.                          *)

\* nn.Conv1d(in_channels, out_channels, kernel_size, padding=...)
Conv1d(in_channels, out_channels, kernel_size, padding) ==
    [in_channels |-> in_channels, out_channels |-> out_channels,
     kernel_size |-> kernel_size, padding |-> padding]

\* nn.Linear(in_features, out_features)
Linear(in_features, out_features) ==
    [in_features |-> in_features, out_features |-> out_features]

\* The length of the feature map a convolution makes of a sequence of length L:
\* the sequence is padded on both sides and the filter slides by one.
Conv1dLen(conv, L) == L + 2 * conv.padding - conv.kernel_size + 1

\* A convolution that takes an empty sequence axis and convolves the padding.
Conv1dAcceptsEmpty(conv, t) ==
    /\ Len(t.shape) = 3
    /\ t.shape[2] = conv.in_channels
    /\ t.shape[3] + 2 * conv.padding >= conv.kernel_size

\* A convolution takes a (batch, in_channels, length) tensor with a non-empty
\* sequence axis, at least as long, padded, as the filter.
Conv1dAccepts(conv, t) ==
    /\ Len(t.shape) = 3
    /\ t.shape[2] = conv.in_channels
    /\ t.shape[3] >= 1
    /\ t.shape[3] + 2 * conv.padding >= conv.kernel_size

Conv1dForward(conv, t, name, params) ==
    [shape |-> <<t.shape[1], conv.out_channels, Conv1dLen(conv, t.shape[3])>>,
     src |-> <<name, params>> \o t.src, coef |-> <<>>]

\* F.max_pool1d(t, kernel_size): the stride is the kernel size.
MaxPool1dAccepts(t, kernel_size) ==
    /\ Len(t.shape) = 3
    /\ kernel_size >= 1
    /\ kernel_size <= t.shape[3]

MaxPool1d(t, kernel_size) ==
    [t EXCEPT !.shape = <<t.shape[1], t.shape[2],
                          ((t.shape[3] - kernel_size) \div kernel_size) + 1>>]

\* t.view(-1, n): the first dimension is what is left of the elements.
ViewAccepts(t, n) == n >= 1 /\ Numel(t.shape) % n = 0

View(t, n) == [t EXCEPT !.shape = <<Numel(t.shape) \div n, n>>]

\* torch.cat(ts, 1) of 2-D tensors: every element is a tensor, and all agree
\* on the batch dimension.
CatTypeOk(ts) == \A i \in 1..Len(ts) : ts[i] # None

\* A concatenation that does not compare the batch dimensions.
CatAcceptsAnyBatch(ts) == \A i \in 1..Len(ts) : Len(ts[i].shape) = 2

CatAccepts(ts) ==
    \A i \in 1..Len(ts) : Len(ts[i].shape) = 2 /\ ts[i].shape[1] = ts[1].shape[1]

RECURSIVE SumWidths(_)
SumWidths(ts) == IF ts = <<>> THEN 0 ELSE Head(ts).shape[2] + SumWidths(Tail(ts))

RECURSIVE JoinSrc(_)
JoinSrc(ts) == IF ts = <<>> THEN <<>> ELSE Head(ts).src \o JoinSrc(Tail(ts))

Cat(ts) ==
    [shape |-> <<ts[1].shape[1], SumWidths(ts)>>, src |-> JoinSrc(ts), coef |-> <<>>]

\* nn.Linear applied to a (batch, in_features) tensor.
LinearAccepts(lin, t) == Len(t.shape) = 2 /\ t.shape[2] = lin.in_features

LinearForward(lin, t, name, params) ==
    [t EXCEPT !.shape = <<t.shape[1], lin.out_features>>,
              !.src = <<name, params>> \o t.src]

\* nn.Tanh and nn.LogSoftmax keep the shape.
Tanh(t) == [t EXCEPT !.src = <<"tanh">> \o t.src]

LogSoftmax(t) == [t EXCEPT !.src = <<"logsoftmax">> \o t.src]

\* A dropout layer that does not rescale what it keeps.
DropoutScaleNone(percent) == 1

\* The factor 1/(1-p) by which nn.Dropout(p) multiplies what it keeps.
DropoutScale(percent) == 100 \div (100 - percent)

\* A dropout layer that does not look at the mode.
DropoutAlways(percent, training, t, dropped) ==
    [t EXCEPT !.coef = [i \in 1..Numel(t.shape) |->
                          IF i \in dropped THEN 0 ELSE DropoutScale(percent)]]

\* nn.Dropout(p): in training mode the elements in dropped are zeroed and the
\* others are multiplied by 1/(1-p); otherwise the input is returned as it is.
DropoutForward(percent, training, t, dropped) ==
    IF training
    THEN [t EXCEPT !.coef = [i \in 1..Numel(t.shape) |->
                               IF i \in dropped THEN 0 ELSE DropoutScale(percent)]]
    ELSE t

---------------------------------------------------------------------------
(* class QAModel(nn.Module)                                                *)

\* A padding that keeps the length of the sequence ("same").
PaddingSame(filter_width) == (filter_width - 1) \div 2

\* padding=filter_width-1
Padding(filter_width) == filter_width - 1

\* n_hidden = 2*self.conv_channels + (0 if no_ext_feats else ext_feats_size)
NHidden(conv_channels, no_ext_feats, ext_feats_size) ==
    2 * conv_channels + (IF no_ext_feats THEN 0 ELSE ext_feats_size)

\* An input width that counts the external features whatever the flag.
InFeaturesAlwaysExt(conv_channels, no_ext_feats, ext_feats_size) ==
    2 * conv_channels + ext_feats_size

\* The input width of combined_feature_vector:
\* 2*self.conv_channels + (0 if no_ext_feats else ext_feats_size)
InFeatures(conv_channels, no_ext_feats, ext_feats_size) ==
    2 * conv_channels + (IF no_ext_feats THEN 0 ELSE ext_feats_size)

\* QAModel.__init__: the object it leaves.  nn.Module starts in training mode;
\* the layers hold freshly initialised parameters ("init").  args keeps the
\* constructor's arguments and origin how the object came to be.
QAModel(input_n_dim, filter_width, conv_filters, no_ext_feats, ext_feats_size, n_classes) ==
    LET conv_channels == conv_filters
        n_hidden == NHidden(conv_channels, no_ext_feats, ext_feats_size)
    IN  [exists |-> TRUE,
         no_ext_feats |-> no_ext_feats,
         conv_channels |-> conv_channels,
         conv_q |-> Conv1d(input_n_dim, conv_channels, filter_width, Padding(filter_width)),
         conv_a |-> Conv1d(input_n_dim, conv_channels, filter_width, Padding(filter_width)),
         combined_feature_vector |->
             Linear(InFeatures(conv_channels, no_ext_feats, ext_feats_size), n_hidden),
         dropout |-> DropoutPercent,
         hidden |-> Linear(n_hidden, n_classes),
         training |-> TRUE,
         params |-> "init",
         origin |-> "__init__",
         args |-> [input_n_dim |-> input_n_dim, filter_width |-> filter_width,
                   conv_filters |-> conv_filters, no_ext_feats |-> no_ext_feats,
                   ext_feats_size |-> ext_feats_size, n_classes |-> n_classes]]

\* QAModel.load: torch.load returns the object that was saved, a QAModel with
\* its trained parameters and the mode it was saved in.
load(saved, blob, training) ==
    [saved EXCEPT !.params = blob, !.training = training, !.origin = "load"]

\* The locals of forward as a call starts: q, a and x are unbound, nothing
\* has run and nothing is raised.
Frame0 == [q |-> NoTensor, a |-> NoTensor, x |-> NoTensor,
           err |-> "none", at |-> "return", trace |-> <<>>]

Raise(f, exc, op) == [f EXCEPT !.err = exc, !.at = op]

\* An operation completed: it is added to the trace with the shape it made.
Ran(f, op, t) == Append(f.trace, [op |-> op, shape |-> t.shape])

\* q = self.conv_q.forward(question)    a = self.conv_a.forward(answer)
StepConv(self, f, v, sentence) ==
    LET op == "conv_" \o v
        conv == IF v = "q" THEN self.conv_q ELSE self.conv_a
    IN  IF f.err # "none" THEN f
        ELSE IF ~Conv1dAccepts(conv, sentence) THEN Raise(f, "RuntimeError", op)
        ELSE LET t == Tanh(Conv1dForward(conv, sentence, op, self.params))
             IN  [f EXCEPT ![v] = t, !.trace = Ran(f, op, t)]

\* A window taken from the wrong axis: q.size()[1], the number of channels.
PoolWindowChannels(t) == t.shape[2]

\* The window of the pooling: q.size()[2], the whole feature map.
PoolWindow(t) == t.shape[3]

\* q = F.max_pool1d(q, q.size()[2])     a = F.max_pool1d(a, a.size()[2])
StepPool(f, v) ==
    LET op == "pool_" \o v
    IN  IF f.err # "none" THEN f
        ELSE IF ~MaxPool1dAccepts(f[v], PoolWindow(f[v])) THEN Raise(f, "RuntimeError", op)
        ELSE LET t == MaxPool1d(f[v], PoolWindow(f[v]))
             IN  [f EXCEPT ![v] = t, !.trace = Ran(f, op, t)]

\* q = q.view(-1, self.conv_channels)   a = a.view(-1, self.conv_channels)
StepView(self, f, v) ==
    LET op == "view_" \o v
    IN  IF f.err # "none" THEN f
        ELSE IF ~ViewAccepts(f[v], self.conv_channels) THEN Raise(f, "RuntimeError", op)
        ELSE LET t == View(f[v], self.conv_channels)
             IN  [f EXCEPT ![v] = t, !.trace = Ran(f, op, t)]

\* A forward that concatenates ext_feats whatever the model was built with.
CatListAlways(self, f, ext_feats) == <<f.q, f.a, ext_feats>>

\* The tensors forward concatenates: ext_feats is read only when the model
\* was built with external features.
CatList(self, f, ext_feats) ==
    IF self.no_ext_feats THEN <<f.q, f.a>> ELSE <<f.q, f.a, ext_feats>>

\* x = torch.cat([q, a], 1)   or   x = torch.cat([q, a, ext_feats], 1)
StepCat(self, f, ext_feats) ==
    LET ts == CatList(self, f, ext_feats)
    IN  IF f.err # "none" THEN f
        ELSE IF ~CatTypeOk(ts) THEN Raise(f, "TypeError", "cat")
        ELSE IF ~CatAccepts(ts) THEN Raise(f, "RuntimeError", "cat")
        ELSE LET t == Cat(ts)
             IN  [f EXCEPT !.x = t, !.trace = Ran(f, "cat", t)]

\* x = self.combined_feature_vector.forward(x)
StepCombined(self, f) ==
    IF f.err # "none" THEN f
    ELSE IF ~LinearAccepts(self.combined_feature_vector, f.x)
         THEN Raise(f, "RuntimeError", "combined_feature_vector")
    ELSE LET t == LinearForward(self.combined_feature_vector, f.x,
                                "combined_feature_vector", self.params)
         IN  [f EXCEPT !.x = t, !.trace = Ran(f, "combined_feature_vector", t)]

\* x = self.combined_features_activation.forward(x)
StepActivation(f) ==
    IF f.err # "none" THEN f
    ELSE LET t == Tanh(f.x)
         IN  [f EXCEPT !.x = t, !.trace = Ran(f, "combined_features_activation", t)]

\* x = self.dropout(x)
StepDropout(self, f, dropped) ==
    IF f.err # "none" THEN f
    ELSE LET t == DropoutForward(self.dropout, self.training, f.x, dropped)
         IN  [f EXCEPT !.x = t, !.trace = Ran(f, "dropout", t)]

\* x = self.hidden(x)
StepHidden(self, f) ==
    IF f.err # "none" THEN f
    ELSE IF ~LinearAccepts(self.hidden, f.x) THEN Raise(f, "RuntimeError", "hidden")
    ELSE LET t == LinearForward(self.hidden, f.x, "hidden", self.params)
         IN  [f EXCEPT !.x = t, !.trace = Ran(f, "hidden", t)]

\* x = self.logsoftmax(x)
StepLogSoftmax(f) ==
    IF f.err # "none" THEN f
    ELSE LET t == LogSoftmax(f.x)
         IN  [f EXCEPT !.x = t, !.trace = Ran(f, "logsoftmax", t)]

\* What a call shows its caller: the arguments, the exception raised (if any)
\* and by which operation, the operations that ran, and the returned tensor
\* (NoTensor when the call raised).
Outcome(question, answer, ext_feats, f) ==
    [called |-> TRUE,
     question |-> question, answer |-> answer, ext_feats |-> ext_feats,
     err |-> f.err, at |-> f.at, trace |-> f.trace,
     out |-> IF f.err = "none" THEN f.x ELSE NoTensor]

\* The body of forward, statement by statement, from the frame f0.  dropped
\* is the set of elements the dropout layer zeroes in this call, were it to
\* run in training mode.
Body(self, question, answer, ext_feats, dropped, f0) ==
    LET f1 == StepView(self, StepPool(StepConv(self, f0, "q", question), "q"), "q")
        f2 == StepView(self, StepPool(StepConv(self, f1, "a", answer), "a"), "a")
        f3 == StepCat(self, f2, ext_feats)
        f4 == StepActivation(StepCombined(self, f3))
        f5 == StepDropout(self, f4, dropped)
    IN  StepLogSoftmax(StepHidden(self, f5))

\* A forward that refuses to run on an object that was not loaded.
forwardWhenLoaded(self, question, answer, ext_feats, dropped) ==
    Outcome(question, answer, ext_feats,
            Body(self, question, answer, ext_feats, dropped,
                 IF self.origin = "load" THEN Frame0
                 ELSE Raise(Frame0, "StateError", "forward")))

\* QAModel.forward
forward(self, question, answer, ext_feats, dropped) ==
    Outcome(question, answer, ext_feats,
            Body(self, question, answer, ext_feats, dropped, Frame0))

\* A forward that switches the object to inference mode.
SelfAfterForwardEval(self) == [self EXCEPT !.training = FALSE]

\* The object after a forward call: forward assigns only its locals.
SelfAfterForward(self) == self

---------------------------------------------------------------------------
(* The inputs and configurations explored.                                 *)

Sentences(name, batches, dims, lens) ==
    {[shape |-> <<b, d, l>>, src |-> <<name>>, coef |-> <<>>] :
        b \in batches, d \in dims, l \in lens}

Features(name, batches, widths) ==
    {[shape |-> <<b, w>>, src |-> <<name>>, coef |-> <<>>] : b \in batches, w \in widths}

Questions == Sentences("q0", 1..MaxBatch, Dims, 0..MaxLen)
Answers == Sentences("a0", 1..MaxBatch, Dims, 0..MaxLen)
ExtFeats == {None} \cup Features("e0", 1..MaxBatch, 1..(MaxExt + 1))

Configs ==
    [input_n_dim : Dims, filter_width : 1..MaxWidth, conv_filters : 1..MaxChannels,
     no_ext_feats : BOOLEAN, ext_feats_size : 1..MaxExt, n_classes : Classes]

\* conv_q of the model of the walkthrough: word vectors of dimension 50, 100
\* filters of width 5 ("5 tokens with a padding of 4 on each side").
ReferenceConv == Conv1d(50, 100, 5, Padding(5))

\* The model and the inputs of the walkthrough: word vectors of dimension 50,
\* filters of width 5, 100 filters, 4 external features (passed as zeros), 2
\* classes; one question of 5 tokens and one answer of 30 tokens.
ReferenceConfigs ==
    [input_n_dim : {50}, filter_width : {5}, conv_filters : {100},
     no_ext_feats : {FALSE}, ext_feats_size : {4}, n_classes : Classes]

ReferenceQuestions == Sentences("xq", {1}, {50}, {5})
ReferenceAnswers == Sentences("xa", {1}, {50}, {30})
ReferenceExtFeats == Features("x_ext_feats", {1}, {4})

\* The small world of the comparison of calls: one model shape, two parameter
\* sets, two questions.
DetQuestions == Sentences("q0", {1}, {1}, {0, 1}) \cup Sentences("q1", {1}, {1}, {1})
DetAnswers == Sentences("a0", {1}, {1}, {2})
DetExtFeats == {None}
DetConfigs ==
    [input_n_dim : {1}, filter_width : {2}, conv_filters : {1},
     no_ext_feats : {TRUE}, ext_feats_size : {1}, n_classes : Classes]

New(cfg) ==
    QAModel(cfg.input_n_dim, cfg.filter_width, cfg.conv_filters,
            cfg.no_ext_feats, cfg.ext_feats_size, cfg.n_classes)

\* The random draw of the dropout layer in a call, the set of elements it
\* would zero: of the elements of the tensor it is given, none, any one, or
\* all of them (and nothing when the call does not get to it).
Drops(self, question, answer, ext_feats) ==
    LET dry == forward(self, question, answer, ext_feats, {})
        elems == 1..Numel(dry.trace[9].shape)   \* what the activation made
    IN  IF dry.err = "none"
        THEN {{}} \cup {{i} : i \in elems} \cup {elems}
        ELSE {{}}

---------------------------------------------------------------------------
(* The operations.                                                         *)

Init == model = NoModel /\ last = NoCall /\ seen = NoSeen

\* trained_model = QAModel(...)
Construct(cfgs) ==
    /\ last = NoCall
    /\ \E cfg \in cfgs : model' = New(cfg)
    /\ UNCHANGED <<last, seen>>

\* trained_model = QAModel.load(model_fname)
Load(cfgs, blobs) ==
    /\ last = NoCall
    /\ \E cfg \in cfgs, blob \in blobs, training \in BOOLEAN :
           model' = load(New(cfg), blob, training)
    /\ UNCHANGED <<last, seen>>

\* trained_model.train()
Train ==
    /\ last = NoCall
    /\ model.exists
    /\ model' = [model EXCEPT !.training = TRUE]
    /\ UNCHANGED <<last, seen>>

\* trained_model.eval()
Eval ==
    /\ last = NoCall
    /\ model.exists
    /\ model' = [model EXCEPT !.training = FALSE]
    /\ UNCHANGED <<last, seen>>

\* trained_model(question, answer, ext_feats): one whole call of forward.
Score(question, answer, ext_feats, dropped) ==
    /\ last' = forward(model, question, answer, ext_feats, dropped)
    /\ model' = SelfAfterForward(model)

Forward ==
    /\ last = NoCall
    /\ model.exists
    /\ \E question \in Questions, answer \in Answers, ext_feats \in ExtFeats :
           \E dropped \in Drops(model, question, answer, ext_feats) :
              Score(question, answer, ext_feats, dropped)
    /\ UNCHANGED seen

\* A call with an observer: the observer either keeps this call for later
\* comparison or counts it as one more call since the one it kept.
ForwardObserved ==
    /\ last = NoCall
    /\ model.exists
    /\ \E question \in DetQuestions, answer \in DetAnswers, ext_feats \in DetExtFeats :
           \E dropped \in Drops(model, question, answer, ext_feats) :
              Score(question, answer, ext_feats, dropped)
    /\ \/ seen' = [kept |-> TRUE, self |-> model, call |-> last', later |-> 0]
       \/ /\ seen.kept
          /\ seen.later < MaxCalls
          /\ seen' = [seen EXCEPT !.later = @ + 1]

\* The call of the walkthrough: trained_model(xq, xa, x_ext_feats).
ForwardReference ==
    /\ last = NoCall
    /\ model.exists
    /\ \E question \in ReferenceQuestions, answer \in ReferenceAnswers,
          ext_feats \in ReferenceExtFeats :
           \E dropped \in Drops(model, question, answer, ext_feats) :
              Score(question, answer, ext_feats, dropped)
    /\ UNCHANGED seen

\* The caller is done with the result.
Return ==
    /\ last # NoCall
    /\ last' = NoCall
    /\ UNCHANGED <<model, seen>>

Next == Construct(Configs) \/ Load(Configs, Blobs) \/ Train \/ Eval \/ Forward \/ Return

Spec == Init /\ [][Next]_vars

NextDet == Load(DetConfigs, DetBlobs) \/ Train \/ Eval \/ ForwardObserved \/ Return

SpecDet == Init /\ [][NextDet]_vars

NextReference ==
    \/ Construct(ReferenceConfigs)
    \/ Load(ReferenceConfigs, Blobs)
    \/ Train
    \/ Eval
    \/ ForwardReference
    \/ Return

SpecReference == Init /\ [][NextReference]_vars

---------------------------------------------------------------------------
(* Vocabulary of the properties.  While a call's outcome is in last, model *)
(* is the object the call ran on: every other operation waits for Return.  *)

Ops(r) == {r.trace[i].op : i \in DOMAIN r.trace}

ShapeAfter(r, op) == r.trace[CHOOSE i \in DOMAIN r.trace : r.trace[i].op = op].shape

BranchOps == {"conv_q", "pool_q", "view_q", "conv_a", "pool_a", "view_a"}

Lq == last.question.shape[3]
La == last.answer.shape[3]
Bq == last.question.shape[1]
Ba == last.answer.shape[1]
HasExt == last.ext_feats # None
Be == last.ext_feats.shape[1]
We == last.ext_feats.shape[2]

\* The call the caller is looking at is one the model is built for: both
\* sentences non-empty, one batch size throughout, and, when the model uses
\* external features, ext_feats of the configured width.
WellFormed ==
    /\ Lq >= 1 /\ La >= 1
    /\ Bq = Ba
    /\ \/ model.no_ext_feats
       \/ HasExt /\ Be = Bq /\ We = model.args.ext_feats_size

---------------------------------------------------------------------------
(* C1.  As claimed: the scorer is Unloaded until a load has succeeded, and *)
(* in every state where no parameter set has been loaded a call to score   *)
(* fails with StateError and returns no log-probabilities.                 *)
C1_UnloadedRaisesStateError ==
    (last.called /\ model.origin # "load") =>
        (last.err = "StateError" /\ last.out = NoTensor)

(* C1, as the code has it: there is no Unloaded state and no StateError.   *)
(* An object built by __init__ and never loaded is ready: every well-formed*)
(* call on it returns a (batch, n_classes) tensor, and a call that fails   *)
(* fails with an exception torch raises on the inputs.                     *)
C1_ReadyFromConstruction ==
    (last.called /\ model.origin = "__init__") =>
        /\ last.err \in {"none", "RuntimeError", "TypeError"}
        /\ WellFormed => /\ last.err = "none"
                         /\ last.out.shape = <<Bq, model.args.n_classes>>

C1_Witness ==
    /\ last.called
    /\ model.origin = "__init__"
    /\ model.params = "init"
    /\ last.err = "none"
    /\ last.out # NoTensor

(* C2.  As claimed: when the presence of auxiliary features disagrees with *)
(* the model's configuration, the call ends in ConfigurationError, raised  *)
(* before any tensor operation has run.                                    *)
PresenceMismatch ==
    \/ ~model.no_ext_feats /\ ~HasExt
    \/ model.no_ext_feats /\ HasExt

C2_MismatchRaisesConfigurationErrorFirst ==
    (last.called /\ PresenceMismatch) =>
        (last.err = "ConfigurationError" /\ last.trace = <<>>)

(* C2, as the code has it: forward checks nothing up front.  A model built *)
(* with external features that is passed None fails: with the TypeError of *)
(* torch.cat, after both convolution branches have run, unless a branch    *)
(* has already failed on its sentence.  A model built without external     *)
(* features never reads ext_feats: the call succeeds exactly when it would *)
(* with None.                                                              *)
C2_MissingFailsAtCatExtraIsIgnored ==
    last.called =>
        /\ (~model.no_ext_feats /\ ~HasExt) =>
               /\ last.err # "none"
               /\ last.out = NoTensor
               /\ (Lq >= 1 /\ La >= 1) =>
                      /\ last.err = "TypeError"
                      /\ last.at = "cat"
                      /\ Ops(last) = BranchOps
        /\ (model.no_ext_feats /\ HasExt) =>
               /\ last.err = "none" <=> (Lq >= 1 /\ La >= 1 /\ Bq = Ba)
               /\ last.err = "none" => last.out.shape = <<Bq, model.args.n_classes>>

C2_Witness ==
    /\ last.called
    /\ ~model.no_ext_feats
    /\ ~HasExt
    /\ last.err = "TypeError"
    /\ "view_a" \in Ops(last)

(* C3.  As claimed: for every filter width, a call whose question or       *)
(* answer has sequence length 0 fails with InvalidInputError, and the      *)
(* branch given the empty sentence never reaches max-pooling.              *)
C3_EmptyRaisesInvalidInputError ==
    (last.called /\ (Lq = 0 \/ La = 0)) =>
        /\ last.err = "InvalidInputError"
        /\ Lq = 0 => "pool_q" \notin Ops(last)
        /\ La = 0 => "pool_a" \notin Ops(last)

(* C3, as the code has it: forward makes no length check and the notebook  *)
(* defines no InvalidInputError.  For every filter width, a call whose     *)
(* question or answer has sequence length 0 fails with the RuntimeError    *)
(* nn.Conv1d raises on an empty sequence axis, returns nothing, and the    *)
(* branch given the empty sentence never reaches max-pooling.              *)
C3_EmptyFailsInConvolution ==
    (last.called /\ (Lq = 0 \/ La = 0)) =>
        /\ last.err = "RuntimeError"
        /\ last.at = (IF Lq = 0 THEN "conv_q" ELSE "conv_a")
        /\ last.out = NoTensor
        /\ Lq = 0 => Ops(last) = {}
        /\ La = 0 => Ops(last) \cap {"conv_a", "pool_a", "view_a"} = {}

C3_Witness ==
    /\ last.called
    /\ Lq >= 1
    /\ La = 0
    /\ model.args.filter_width >= 2
    /\ last.err = "RuntimeError"
    /\ "view_q" \in Ops(last)

(* C4.  As claimed: a call in which the batch sizes of question, answer    *)
(* and auxiliary features are not all equal fails with InvalidInputError   *)
(* and returns no output.                                                  *)
BatchMismatch == Bq # Ba \/ (HasExt /\ (Be # Bq \/ Be # Ba))

C4_BatchMismatchRaisesInvalidInputError ==
    (last.called /\ BatchMismatch) =>
        (last.err = "InvalidInputError" /\ last.out = NoTensor)

(* C4, as the code has it: a call fails and returns no output when the     *)
(* batch sizes of question and answer differ, or when the model uses       *)
(* external features and the batch size of ext_feats differs from theirs;  *)
(* with sentences that pass the convolutions it is torch.cat that raises   *)
(* (RuntimeError, or TypeError when ext_feats is read and is None).  A     *)
(* model built without external features never reads ext_feats, so its     *)
(* batch size is not compared with anything.                               *)
C4_BatchMismatchFailsWhereRead ==
    last.called =>
        /\ (Bq # Ba \/ (~model.no_ext_feats /\ HasExt /\ Be # Bq)) =>
               /\ last.err # "none"
               /\ last.out = NoTensor
               /\ (Lq >= 1 /\ La >= 1) =>
                      /\ last.at = "cat"
                      /\ last.err = (IF model.no_ext_feats \/ HasExt
                                     THEN "RuntimeError" ELSE "TypeError")
        /\ (model.no_ext_feats /\ Bq = Ba /\ Lq >= 1 /\ La >= 1) =>
               last.err = "none"

C4_Witness ==
    /\ last.called
    /\ Bq # Ba
    /\ Lq >= 1 /\ La >= 1
    /\ last.err = "RuntimeError"
    /\ last.at = "cat"

---------------------------------------------------------------------------
(* C5.  Determinism: in inference mode, two calls to score with identical  *)
(* question, answer and auxiliary inputs on the same loaded parameters     *)
(* return identical outputs, whatever calls happen in between; what two    *)
(* such calls return can differ only through the dropout of a call made in *)
(* training mode.                                                          *)
SameInputs ==
    /\ seen.call.question = last.question
    /\ seen.call.answer = last.answer
    /\ seen.call.ext_feats = last.ext_feats

SameParameters ==
    /\ seen.self.origin = "load" /\ model.origin = "load"
    /\ seen.self.params = model.params
    /\ seen.self.args = model.args

C5_InferenceIsDeterministic ==
    (seen.kept /\ seen.later >= 1 /\ last.called /\ SameInputs /\ SameParameters) =>
        /\ last.err = seen.call.err
        /\ last.trace = seen.call.trace
        /\ last.out.shape = seen.call.out.shape
        /\ last.out.src = seen.call.out.src
        /\ (~seen.self.training /\ ~model.training) => last.out = seen.call.out
        /\ last.out.coef # seen.call.out.coef => (seen.self.training \/ model.training)

C5_Witness ==
    /\ seen.kept
    /\ seen.later >= 2
    /\ last.called
    /\ SameInputs
    /\ SameParameters
    /\ ~seen.self.training
    /\ ~model.training
    /\ last.err = "none"
    /\ last.out = seen.call.out

(* C6.  score writes no instance state: across every call of forward,      *)
(* successful or failing, the object (its parameters, its structural       *)
(* hyperparameters and its training/inference mode flag) is unchanged.     *)
C6_ForwardWritesNoInstanceState ==
    [][(~last.called /\ last'.called) => model' = model]_vars

C6_Witness ==
    /\ last.called
    /\ model.origin = "load"
    /\ model.training
    /\ last.err = "none"
    /\ last.out.coef # <<>>

(* C7.  For every batch size, channel count, filter width and pair of      *)
(* sequence lengths Lq >= 1, La >= 1, each convolution branch (convolve,   *)
(* pool over the whole feature map, reshape) yields a summary of shape     *)
(* (batch, channels), and score yields an output of shape (batch,          *)
(* class-count); neither depends on Lq or La.                              *)
C7_SummaryAndOutputShapes ==
    last.called =>
        /\ Lq >= 1 =>
               /\ {"pool_q", "view_q"} \subseteq Ops(last)
               /\ ShapeAfter(last, "pool_q") = <<Bq, model.args.conv_filters, 1>>
               /\ ShapeAfter(last, "view_q") = <<Bq, model.args.conv_filters>>
        /\ (Lq >= 1 /\ La >= 1) =>
               /\ {"pool_a", "view_a"} \subseteq Ops(last)
               /\ ShapeAfter(last, "pool_a") = <<Ba, model.args.conv_filters, 1>>
               /\ ShapeAfter(last, "view_a") = <<Ba, model.args.conv_filters>>
        /\ WellFormed => last.err = "none"
        /\ last.err = "none" => last.out.shape = <<Bq, model.args.n_classes>>

C7_Witness ==
    /\ last.called
    /\ last.err = "none"
    /\ Bq = 2
    /\ model.args.conv_filters = 2
    /\ model.args.filter_width = 2
    /\ Lq = 1 /\ La = 2
    /\ ShapeAfter(last, "view_q") = ShapeAfter(last, "view_a")

(* C8.  For every configuration the input width of the projection layer is *)
(* 2*C + (0 if auxiliary features are disabled else E); the vector score   *)
(* concatenates ([q, a], or [q, a, aux] with aux of width E) has exactly   *)
(* that width; disabling auxiliary features lowers the width by exactly E; *)
(* and a concatenated width that differs from it makes score fail instead  *)
(* of producing an output.                                                 *)
C8_ProjectionInputWidth ==
    /\ model.exists =>
           model.combined_feature_vector.in_features =
               2 * model.args.conv_filters
                 + (IF model.args.no_ext_feats THEN 0 ELSE model.args.ext_feats_size)
    /\ model.exists =>
           New([model.args EXCEPT !.no_ext_feats = FALSE]).combined_feature_vector.in_features
             - New([model.args EXCEPT !.no_ext_feats = TRUE]).combined_feature_vector.in_features
             = model.args.ext_feats_size
    /\ (last.called /\ "cat" \in Ops(last)) =>
           /\ ShapeAfter(last, "cat")[2] =
                  2 * model.args.conv_filters + (IF model.no_ext_feats THEN 0 ELSE We)
           /\ (model.no_ext_feats \/ We = model.args.ext_feats_size) =>
                  ShapeAfter(last, "cat")[2] = model.combined_feature_vector.in_features
           /\ ShapeAfter(last, "cat")[2] # model.combined_feature_vector.in_features =>
                  /\ last.err = "RuntimeError"
                  /\ last.at = "combined_feature_vector"
                  /\ last.out = NoTensor

C8_Witness ==
    /\ last.called
    /\ ~model.no_ext_feats
    /\ "cat" \in Ops(last)
    /\ We # model.args.ext_feats_size
    /\ last.at = "combined_feature_vector"

(* C10.  For every sequence length L and filter width W, the convolution   *)
(* branch pads the sequence axis by W-1 positions on each side, so the     *)
(* feature map it makes, before pooling, has length exactly L + W - 1; for *)
(* L = 5 and W = 5 this is 9.                                              *)
C10_FeatureMapLength ==
    /\ model.exists =>
           /\ model.conv_q.padding = model.args.filter_width - 1
           /\ model.conv_a.padding = model.args.filter_width - 1
    /\ last.called =>
           /\ "conv_q" \in Ops(last) =>
                  ShapeAfter(last, "conv_q") =
                      <<Bq, model.args.conv_filters, Lq + model.args.filter_width - 1>>
           /\ "conv_a" \in Ops(last) =>
                  ShapeAfter(last, "conv_a") =
                      <<Ba, model.args.conv_filters, La + model.args.filter_width - 1>>
    /\ Conv1dLen(ReferenceConv, 5) = 9

C10_Witness ==
    /\ last.called
    /\ model.args.filter_width = 2
    /\ Lq = 2 /\ La = 1
    /\ "conv_a" \in Ops(last)
    /\ ShapeAfter(last, "conv_q")[3] = 3
    /\ ShapeAfter(last, "conv_a")[3] = 2

(* C11.  The dropout step of score, applied after the projection and the  *)
(* activation: in inference mode its output equals its input element for   *)
(* element; in training mode every output element is either 0 or the input *)
(* element multiplied by 1/(1-p) with p = 0.5, that is by 2, and no other   *)
(* value is possible.                                                       *)
C11_DropoutIdentityOrZeroOrDouble ==
    (last.called /\ "dropout" \in Ops(last)) =>
        /\ model.dropout = 50
        /\ last.err = "none"
        /\ ShapeAfter(last, "dropout") = ShapeAfter(last, "combined_features_activation")
        /\ ~model.training => last.out.coef = <<>>
        /\ model.training =>
               /\ Len(last.out.coef) = Numel(ShapeAfter(last, "combined_features_activation"))
               /\ \A i \in 1..Len(last.out.coef) : last.out.coef[i] \in {0, 2}

C11_Witness ==
    /\ last.called
    /\ model.training
    /\ "dropout" \in Ops(last)
    /\ \E i, j \in 1..Len(last.out.coef) : last.out.coef[i] = 0 /\ last.out.coef[j] = 2

(* C12.  In the reference scenario (embedding dimension 50, filter width 5, *)
(* 100 channels, 4 auxiliary features, 2 classes, auxiliary features       *)
(* enabled, question length 5, answer length 30) the concatenated vector    *)
(* has width 204, the vector after the projection layer has width 201,     *)
(* which is the model's hidden width and the classifier layer's input       *)
(* width, and the final output has shape (1, 2).                            *)
C12_ReferenceWidths ==
    last.called =>
        /\ last.err = "none"
        /\ ShapeAfter(last, "cat") = <<1, 204>>
        /\ ShapeAfter(last, "combined_feature_vector") = <<1, 201>>
        /\ model.combined_feature_vector.out_features = 201
        /\ model.hidden.in_features = 201
        /\ last.out.shape = <<1, 2>>

====
